---------------------------- MODULE Spec2Model ----------------------------
(***************************************************************************)
(* Model of atomistic_models/xyz2pdb.py: the ATOM record formatter         *)
(* format_pdb_line, the frame-by-frame converter xyz_to_pdb and the        *)
(* command-line entry point.                                               *)
(*                                                                         *)
(* Text is modelled character by character: a string is a sequence of      *)
(* one-character strings.  An input line is kept as the list of its        *)
(* whitespace-separated tokens (what str.split() returns); a blank line    *)
(* is the empty list.  A floating-point value is a sign and a magnitude    *)
(* counted in units of 10^-4.                                              *)
(***************************************************************************)
EXTENDS Integers, Sequences, FiniteSets, TLC

\* Longest input file, in lines, when lines are drawn from MixedLines.
MaxLines == 5
\* Longest input file, in lines, when lines are drawn from FrameLines.
MaxFrameLines == 7

\* Number of decimal digits kept in the magnitude of a modelled float.
FracDigits == 4

-----------------------------------------------------------------------------
(* State *)

VARIABLES
    pc,                    \* where the program is
    argc,                  \* len(sys.argv)
    input_exists,          \* the input path names an existing file
    input_class,           \* which lines the input file holds
    infile,                \* the lines read from the input file so far
    at_eof,                \* readline() has returned '' (end of file seen)
    in_open, out_open,     \* the two file handles are open
    out_created,           \* open(output_pdb_file, 'w') has created or
                           \* truncated the output file
    outfile,               \* the lines written to the output file
    stdout, stderr,        \* the messages printed, by kind
    exit_status,           \* the exit status: 0 unless sys.exit(1) is called
    model_count, line_num, processed_atoms_total,
    num_atoms, atom_serial_pdb, i,
    fmt_args, pdb_line     \* the last format_pdb_line call and its result

vars == <<pc, argc, input_exists, input_class, infile, at_eof, in_open,
          out_open, out_created, outfile, stdout, stderr, exit_status, model_count,
          line_num, processed_atoms_total, num_atoms, atom_serial_pdb, i,
          fmt_args, pdb_line>>

env == <<argc, input_exists, input_class>>

counters == <<model_count, processed_atoms_total, num_atoms,
              atom_serial_pdb, i>>

-----------------------------------------------------------------------------
(* Characters and strings *)

Digits == <<"0", "1", "2", "3", "4", "5", "6", "7", "8", "9">>

LowerCase == <<"a", "b", "c", "d", "e", "f", "g", "h", "i", "j", "k", "l", "m",
               "n", "o", "p", "q", "r", "s", "t", "u", "v", "w", "x", "y", "z">>

UpperCase == <<"A", "B", "C", "D", "E", "F", "G", "H", "I", "J", "K", "L", "M",
               "N", "O", "P", "Q", "R", "S", "T", "U", "V", "W", "X", "Y", "Z">>

IsDigit(c) == \E d \in 1..10 : Digits[d] = c

DigitVal(c) == (CHOOSE d \in 1..10 : Digits[d] = c) - 1

RECURSIVE Pow10(_)
Pow10(n) == IF n = 0 THEN 1 ELSE 10 * Pow10(n - 1)

Spaces(n) == [k \in 1..n |-> " "]

\* str.upper(), one character
UpperChar(c) ==
    IF \E k \in 1..26 : LowerCase[k] = c
    THEN UpperCase[CHOOSE k \in 1..26 : LowerCase[k] = c]
    ELSE c

\* str.upper()
Upper(s) == [k \in 1..Len(s) |-> UpperChar(s[k])]

\* s[:n]
Prefix(s, n) == IF Len(s) <= n THEN s ELSE SubSeq(s, 1, n)

\* The format specifications ">Ns" and "<Ns": pad to width N, never cut.
RJust(s, w) == IF Len(s) >= w THEN s ELSE Spaces(w - Len(s)) \o s

LJust(s, w) == IF Len(s) >= w THEN s ELSE s \o Spaces(w - Len(s))

RECURSIVE NatStr(_)
NatStr(n) ==
    IF n < 10 THEN <<Digits[n + 1]>>
    ELSE NatStr(n \div 10) \o <<Digits[(n % 10) + 1]>>

IntStr(n) == IF n < 0 THEN <<"-">> \o NatStr(-n) ELSE NatStr(n)

\* The format specification ">Wd"
FmtInt(n, w) == RJust(IntStr(n), w)

\* The digits of n, zero-padded on the left to d places.
ZeroPad(n, d) ==
    LET s == NatStr(n) IN
    IF Len(s) >= d THEN s ELSE [k \in 1..(d - Len(s)) |-> "0"] \o s

\* The format specification ">W.Df" applied to the float v: round the
\* magnitude to D decimals (to nearest, ties to even), keep the sign (also
\* of a value that rounds to zero), pad on the left to width W.
FmtFixed(v, d, w) ==
    LET unit == Pow10(FracDigits - d)
        q    == v.mag \div unit
        r    == v.mag % unit
        up   == (2 * r > unit) \/ (2 * r = unit /\ q % 2 = 1)
        n    == IF up THEN q + 1 ELSE q
        body == NatStr(n \div Pow10(d)) \o <<".">> \o ZeroPad(n % Pow10(d), d)
    IN RJust(IF v.neg THEN <<"-">> \o body ELSE body, w)

-----------------------------------------------------------------------------
(* Parsing of tokens: int() and float() *)

Unsigned(t) == IF Len(t) > 0 /\ t[1] \in {"+", "-"} THEN Tail(t) ELSE t

IsNegative(t) == Len(t) > 0 /\ t[1] = "-"

RECURSIVE DigitsVal(_)
DigitsVal(s) ==
    IF Len(s) = 0 THEN 0
    ELSE 10 * DigitsVal(SubSeq(s, 1, Len(s) - 1)) + DigitVal(s[Len(s)])

\* int(t) does not raise ValueError: an optional sign, then digits only.
IsIntLit(t) ==
    LET b == Unsigned(t) IN
    Len(b) > 0 /\ \A k \in 1..Len(b) : IsDigit(b[k])

IntVal(t) ==
    IF IsNegative(t) THEN 0 - DigitsVal(Unsigned(t)) ELSE DigitsVal(Unsigned(t))

\* Position of the decimal point in s, or Len(s) + 1 when there is none.
DotPos(s) ==
    IF \E k \in 1..Len(s) : s[k] = "."
    THEN CHOOSE k \in 1..Len(s) : s[k] = "."
    ELSE Len(s) + 1

\* float(t) does not raise ValueError: an optional sign, then digits with at
\* most one decimal point and at least one digit.  (Exponents, "inf" and
\* "nan" are not among the modelled tokens.)
IsFloatLit(t) ==
    LET b == Unsigned(t) IN
    /\ \A k \in 1..Len(b) : IsDigit(b[k]) \/ b[k] = "."
    /\ Cardinality({k \in 1..Len(b) : b[k] = "."}) <= 1
    /\ \E k \in 1..Len(b) : IsDigit(b[k])

\* float(t), for a literal of at most FracDigits decimals.
FloatVal(t) ==
    LET b    == Unsigned(t)
        p    == DotPos(b)
        ip   == SubSeq(b, 1, p - 1)
        fp   == Prefix(SubSeq(b, p + 1, Len(b)), FracDigits)
    IN [neg |-> IsNegative(t),
        mag |-> DigitsVal(ip) * Pow10(FracDigits)
                + DigitsVal(fp) * Pow10(FracDigits - Len(fp))]

-----------------------------------------------------------------------------
(* format_pdb_line *)

\* Every argument is a string (character sequence), an integer or a float.
format_pdb_line(atom_serial, atom_name, res_name, chain_id, res_seq, x, y, z, occupancy, temp_factor, element_sym) ==
    LET atom_name_pdb == <<" ">> \o LJust(atom_name, 3)
    IN  <<"A", "T", "O", "M", " ", " ">> \o FmtInt(atom_serial, 5)
        \o <<" ">> \o LJust(atom_name_pdb, 4)
        \o LJust(res_name, 3) \o <<" ">>
        \o chain_id
        \o FmtInt(res_seq, 4) \o Spaces(4)
        \o FmtFixed(x, 3, 8)
        \o FmtFixed(y, 3, 8)
        \o FmtFixed(z, 3, 8)
        \o FmtFixed(occupancy, 2, 6)
        \o FmtFixed(temp_factor, 2, 6) \o Spaces(6)
        \o Spaces(4) \o RJust(element_sym, 2) \o Spaces(2)
        \o <<"\n">>

\* The defaults xyz_to_pdb passes for the fields an XYZ file does not carry.
DefaultResName == <<"M", "O", "L">>
DefaultChainId == <<"A">>
DefaultResSeq == 1
DefaultOccupancy == [neg |-> FALSE, mag |-> Pow10(FracDigits)]
DefaultTempFactor == [neg |-> FALSE, mag |-> 0]

\* Mutant of AtomArgs: the serial number runs on across models.
AtomArgs_RunningSerial(serial, parts) ==
    [atom_serial |-> processed_atoms_total + 1,
     atom_name   |-> parts[1],
     res_name    |-> <<"M", "O", "L">>,
     chain_id    |-> <<"A">>,
     res_seq     |-> 1,
     x           |-> FloatVal(parts[2]),
     y           |-> FloatVal(parts[3]),
     z           |-> FloatVal(parts[4]),
     occupancy   |-> [neg |-> FALSE, mag |-> Pow10(FracDigits)],
     temp_factor |-> [neg |-> FALSE, mag |-> 0],
     element_sym |-> Prefix(Upper(parts[1]), 2)]

\* The arguments of the format_pdb_line call for the atom line `parts`,
\* written with serial number `serial`.
AtomArgs(serial, parts) ==
    [atom_serial |-> serial,
     atom_name   |-> parts[1],
     res_name    |-> DefaultResName,
     chain_id    |-> DefaultChainId,
     res_seq     |-> DefaultResSeq,
     x           |-> FloatVal(parts[2]),
     y           |-> FloatVal(parts[3]),
     z           |-> FloatVal(parts[4]),
     occupancy   |-> DefaultOccupancy,
     temp_factor |-> DefaultTempFactor,
     element_sym |-> Prefix(Upper(parts[1]), 2)]

FormatArgs(a) ==
    format_pdb_line(a.atom_serial, a.atom_name, a.res_name, a.chain_id,
                    a.res_seq, a.x, a.y, a.z, a.occupancy, a.temp_factor,
                    a.element_sym)

ModelLine(n) ==
    <<"M", "O", "D", "E", "L">> \o Spaces(5) \o FmtInt(n, 4) \o <<"\n">>

EndmdlLine == <<"E", "N", "D", "M", "D", "L", "\n">>

EndLine == <<"E", "N", "D", "\n">>

-----------------------------------------------------------------------------
(* Input files *)

TokCount2 == <<"2">>
TokCount1 == <<"1">>
TokZero   == <<"0">>
TokNeg    == <<"-", "1">>
TokWord   == <<"x">>
TokElem   == <<"f", "e">>
TokCarbon == <<"C">>
TokX      == <<"1", ".", "5">>
TokY      == <<"0">>
TokZ      == <<"-", "2", ".", "2", "5", "1", "6">>

LineCount2 == <<TokCount2>>
LineCount1 == <<TokCount1>>
LineZero   == <<TokZero>>
LineNeg    == <<TokNeg>>
LineText   == <<TokWord>>
LineAtom   == <<TokElem, TokX, TokY, TokZ>>
LineShort  == <<TokCarbon, TokX, TokY>>
LineBadNum == <<TokCarbon, TokX, TokWord, TokY>>
LineExtra  == <<TokCarbon, TokX, TokY, TokZ, TokWord>>
LineExtraNum == <<TokElem, TokX, TokY, TokZ, TokY>>
LineShifted == <<TokCarbon, TokWord, TokX, TokY, TokZ>>

\* Lines of arbitrary files: counts (positive, zero, negative) and atom
\* lines, valid, too short and with a non-numeric coordinate.  Where a comment
\* or a count is expected, an atom line is the text that is none.
MixedLines == {LineCount2, LineCount1, LineZero, LineNeg, LineAtom,
               LineShort, LineBadNum}

\* Lines of longer files: counts, atom lines, and a line of text, which is a
\* comment, an unparseable count or a malformed atom line according to
\* where it stands.
FrameLines == {LineCount2, LineCount1, LineText, LineAtom}

\* Lines of frames, declared with a count of two or of zero, whose atom
\* lines may carry a fifth token: after the three coordinates, numeric or
\* not, or between the element and the coordinates.
ExtraLines == {LineCount2, LineZero, LineAtom, LineExtra, LineExtraNum,
               LineShifted}

InputClasses == {"mixed", "frames", "extras"}

LinesOf(class) ==
    IF class = "mixed" THEN MixedLines
    ELSE IF class = "frames" THEN FrameLines
    ELSE ExtraLines

MaxOf(class) == IF class = "frames" THEN MaxFrameLines ELSE MaxLines

\* What readline() returns: a line, or '' at end of file.
Eof == [eof |-> TRUE, toks |-> <<>>]

Line(l) == [eof |-> FALSE, toks |-> l]

\* len(sys.argv) of the runs modelled
ArgCounts == {2, 3, 4}

-----------------------------------------------------------------------------
(* Reading and initial state *)

NoArgs == AtomArgs(0, <<<<>>, TokY, TokY, TokY>>)

\* The file is read strictly front to back, so its content is settled line
\* by line, as it is read: a read returns end of file, or one more line
\* while the file is shorter than the longest file modelled.  Once end of
\* file has been returned, every later read returns it again.
Reads ==
    IF at_eof THEN {Eof}
    ELSE {Eof} \cup (IF Len(infile) < MaxOf(input_class)
                     THEN {Line(l) : l \in LinesOf(input_class)}
                     ELSE {})

\* infile.readline() returning r, with line_num += 1
readline(r) ==
    /\ r \in Reads
    /\ infile' = IF r.eof THEN infile ELSE Append(infile, r.toks)
    /\ at_eof' = r.eof
    /\ line_num' = line_num + 1

\* int(line.strip()) does not raise ValueError
ParsesAsCount(toks) == Len(toks) = 1 /\ IsIntLit(toks[1])

CountOf(toks) == IntVal(toks[1])

\* Mutant of AfterCount: a count of zero is taken for a frame.
AfterCount_ZeroAccepted(n) == IF n < 0 THEN "skip" ELSE "comment"

\* The branch taken once num_atoms is known: skip the frame, or read it.
AfterCount(n) == IF n <= 0 THEN "skip" ELSE "comment"

\* Mutant of AtomParses: every token after the element is converted.
AtomParses_AllTokens(parts) ==
    /\ Len(parts) >= 4
    /\ \A k \in 2..Len(parts) : IsFloatLit(parts[k])

\* parts has four tokens or more and parts[1], parts[2], parts[3] (counted
\* from 0) are floats
AtomParses(parts) ==
    /\ Len(parts) >= 4
    /\ IsFloatLit(parts[2]) /\ IsFloatLit(parts[3]) /\ IsFloatLit(parts[4])

InitCommon ==
    /\ infile = <<>>
    /\ at_eof = FALSE
    /\ in_open = FALSE
    /\ out_open = FALSE
    /\ out_created = FALSE
    /\ outfile = <<>>
    /\ stdout = <<>>
    /\ stderr = <<>>
    /\ exit_status = 0
    /\ model_count = 0
    /\ line_num = 0
    /\ processed_atoms_total = 0
    /\ num_atoms = 0
    /\ atom_serial_pdb = 0
    /\ i = 0
    /\ fmt_args = NoArgs
    /\ pdb_line = <<>>

\* The program is started from the command line ("main"), or xyz_to_pdb is
\* called directly ("call"), where sys.argv is not looked at.
Init ==
    /\ \/ pc = "main" /\ argc \in ArgCounts
       \/ pc = "call" /\ argc = 3
    /\ input_exists \in BOOLEAN
    /\ input_class \in InputClasses
    /\ InitCommon

-----------------------------------------------------------------------------
(* The command-line entry point *)

Main ==
    /\ pc = "main"
    /\ IF argc # 3
       THEN /\ stdout' = Append(stdout, "usage")
            /\ exit_status' = 1
            /\ pc' = "exited"
            /\ UNCHANGED stderr
       ELSE IF ~input_exists
       THEN /\ stderr' = Append(stderr, "input_does_not_exist")
            /\ exit_status' = 1
            /\ pc' = "exited"
            /\ UNCHANGED stdout
       ELSE /\ pc' = "call"
            /\ UNCHANGED <<stdout, stderr, exit_status>>
    /\ UNCHANGED <<env, infile, at_eof, in_open, out_open, out_created, outfile, line_num,
                   counters, fmt_args, pdb_line>>

-----------------------------------------------------------------------------
(* xyz_to_pdb *)

\* Mutant of OpensOutput: the output file is opened whether or not the
\* input file was.
OpensOutput_Always(inputOpened) == TRUE

\* with open(input, 'r') as infile, open(output, 'w') as outfile: the
\* second open is evaluated only if the first one succeeded.
OpensOutput(inputOpened) == inputOpened

\* Entry: the counters are set to zero and both files are opened, the input
\* first.  A missing input raises FileNotFoundError before the output is
\* opened; the with statement closes what was opened.
OpenFiles ==
    /\ pc = "call"
    /\ stdout' = Append(stdout, "starting")
    /\ model_count' = 0
    /\ line_num' = 0
    /\ processed_atoms_total' = 0
    /\ out_created' = (out_created \/ OpensOutput(input_exists))
    /\ outfile' = IF OpensOutput(input_exists) THEN <<>> ELSE outfile
    /\ IF input_exists
       THEN /\ in_open' = TRUE
            /\ out_open' = TRUE
            /\ pc' = "header"
            /\ UNCHANGED <<stderr, exit_status>>
       ELSE /\ stderr' = Append(stderr, "input_not_found")
            /\ exit_status' = 1
            /\ pc' = "exited"
            /\ UNCHANGED <<in_open, out_open>>
    /\ UNCHANGED <<env, infile, at_eof, num_atoms, atom_serial_pdb, i,
                   fmt_args, pdb_line>>

\* Mutant of AfterHeaderEof: the loop goes on after the end of the file.
AfterHeaderEof_ReadAgain == "header"

\* if not num_atoms_line: break, which leaves the while loop
AfterHeaderEof == "finish"

\* The number-of-atoms line of a frame.
ReadHeader ==
    /\ pc = "header"
    /\ \E r \in Reads :
        /\ readline(r)
        /\ IF r.eof
           THEN /\ pc' = AfterHeaderEof
                /\ UNCHANGED <<num_atoms, stderr>>
           ELSE IF ParsesAsCount(r.toks)
           THEN /\ num_atoms' = CountOf(r.toks)
                /\ pc' = AfterCount(CountOf(r.toks))
                /\ UNCHANGED stderr
           ELSE /\ stderr' = Append(stderr, "invalid_count")
                /\ pc' = "scan"
                /\ UNCHANGED num_atoms
    /\ UNCHANGED <<env, in_open, out_open, out_created, outfile, stdout, exit_status,
                   model_count, processed_atoms_total, atom_serial_pdb, i,
                   fmt_args, pdb_line>>

\* One turn of the search for the next line that parses as a count.
ScanForCount ==
    /\ pc = "scan"
    /\ \E r \in Reads :
        /\ readline(r)
        /\ IF r.eof
           THEN /\ pc' = "finish"
                /\ UNCHANGED num_atoms
           ELSE IF ParsesAsCount(r.toks)
           THEN /\ num_atoms' = CountOf(r.toks)
                /\ pc' = "scan_comment"
           ELSE /\ pc' = "scan"
                /\ UNCHANGED num_atoms
    /\ UNCHANGED <<env, in_open, out_open, out_created, outfile, stdout, stderr,
                   exit_status, model_count, processed_atoms_total,
                   atom_serial_pdb, i, fmt_args, pdb_line>>

\* The search found a count: the line after it is read and dropped, and the
\* frame is then handled like one whose count was read by ReadHeader.
ScanConsumeComment ==
    /\ pc = "scan_comment"
    /\ \E r \in Reads : readline(r)
    /\ pc' = AfterCount(num_atoms)
    /\ UNCHANGED <<env, in_open, out_open, out_created, outfile, stdout, stderr,
                   exit_status, counters, fmt_args, pdb_line>>

\* A count of zero or less: one line is read and dropped; range(num_atoms)
\* is empty, so no atom line is read.
SkipFrame ==
    /\ pc = "skip"
    /\ stderr' = Append(stderr, "non_positive_count")
    /\ \E r \in Reads : readline(r)
    /\ pc' = "header"
    /\ UNCHANGED <<env, in_open, out_open, out_created, outfile, stdout, exit_status,
                   counters, fmt_args, pdb_line>>

\* Mutant of OpensFrame: the MODEL record is written before the comment
\* line is looked at.
OpensFrame_BeforeComment(commentRead) == TRUE

\* Whether the frame is opened (the model counter advanced and the MODEL
\* record written): only past the break on a missing comment line.
OpensFrame(commentRead) == commentRead

\* The comment line of a frame, then the MODEL record.
ReadComment ==
    /\ pc = "comment"
    /\ \E r \in Reads :
        /\ readline(r)
        /\ IF OpensFrame(~r.eof)
           THEN /\ model_count' = model_count + 1
                /\ outfile' = Append(outfile, ModelLine(model_count + 1))
           ELSE UNCHANGED <<model_count, outfile>>
        /\ IF r.eof
           THEN /\ stderr' = Append(stderr, "eof_after_count")
                /\ pc' = "finish"
                /\ UNCHANGED <<stdout, atom_serial_pdb, i>>
           ELSE /\ stdout' = Append(stdout, "processing_frame")
                /\ atom_serial_pdb' = 0
                /\ i' = 0
                /\ pc' = "atoms"
                /\ UNCHANGED stderr
    /\ UNCHANGED <<env, in_open, out_open, out_created, exit_status,
                   processed_atoms_total, num_atoms, fmt_args, pdb_line>>

\* Mutant of WithExit: a handle stays open when an exception leaves the
\* block.
WithExit_LeakOnError(wasOpen, normal) == wasOpen /\ ~normal

\* Whether a handle, open or not, is open once the with statement is left,
\* normally or by an exception: the with statement closes it either way.
WithExit(wasOpen, normal) == FALSE

\* The serial number above which the converter warns.
PdbSerialLimit == 99999

\* Mutant of TurnAfter: a skipped line does not use up a turn.
TurnAfter_OnlyWritten(k, written) == IF written THEN k + 1 ELSE k

\* for i in range(num_atoms): the index after a turn, whether the turn wrote
\* an ATOM record or ended in `continue`.
TurnAfter(k, written) == k + 1

\* Mutant of LoopNext: the loop takes one turn too many.
LoopNext_OffByOne(k) == IF k <= num_atoms THEN "atoms" ELSE "endmdl"

\* Where the for loop over range(num_atoms) goes once its index is k.
LoopNext(k) == IF k < num_atoms THEN "atoms" ELSE "endmdl"

\* Mutant of AfterAtomsEof: end of file inside a frame leaves both loops.
AfterAtomsEof_LeavesAll == "finish"

\* Where the `break` on end of file inside the for loop leads: to the code
\* after the loop, which writes ENDMDL.
AfterAtomsEof == "endmdl"

\* Mutant of TotalAfter: the total is advanced for every atom line read.
TotalAfter_EveryLine(total, written) == total + 1

\* processed_atoms_total after a turn of the loop: processed_atoms_total += 1
\* stands after both `continue` statements, so only a line that is written
\* is counted.
TotalAfter(total, written) == IF written THEN total + 1 ELSE total

\* Mutant of Caught: the except clause names IndexError only.
Caught_IndexErrorOnly(exc) == exc = "IndexError"

\* except (ValueError, IndexError) around the parse of an atom line
Caught(exc) == exc \in {"ValueError", "IndexError"}

\* One turn of the for loop over range(num_atoms): one atom line.  A parse
\* error that the except clause did not catch would reach the handler of
\* Exception, which exits with status 1.
ReadAtom ==
    /\ pc = "atoms"
    /\ \E r \in Reads :
        /\ readline(r)
        /\ IF r.eof
           THEN /\ stderr' = Append(stderr, "eof_in_atoms")
                /\ pc' = AfterAtomsEof
                /\ UNCHANGED <<i, atom_serial_pdb, processed_atoms_total,
                               outfile, fmt_args, pdb_line, in_open,
                               out_open, exit_status>>
           ELSE IF Len(r.toks) < 4
           THEN /\ stderr' = Append(stderr, "malformed_atom_line")
                /\ i' = TurnAfter(i, FALSE)
                /\ pc' = LoopNext(i')
                /\ processed_atoms_total' =
                       TotalAfter(processed_atoms_total, FALSE)
                /\ UNCHANGED <<atom_serial_pdb, outfile, fmt_args, pdb_line,
                               in_open, out_open, exit_status>>
           ELSE IF ~AtomParses(r.toks) /\ Caught("ValueError")
           THEN /\ stderr' = Append(stderr, "atom_parse_error")
                /\ i' = TurnAfter(i, FALSE)
                /\ pc' = LoopNext(i')
                /\ processed_atoms_total' =
                       TotalAfter(processed_atoms_total, FALSE)
                /\ UNCHANGED <<atom_serial_pdb, outfile, fmt_args, pdb_line,
                               in_open, out_open, exit_status>>
           ELSE IF ~AtomParses(r.toks)
           THEN /\ stderr' = Append(stderr, "unexpected_error")
                /\ exit_status' = 1
                /\ in_open' = WithExit(in_open, FALSE)
                /\ out_open' = WithExit(out_open, FALSE)
                /\ pc' = "exited"
                /\ UNCHANGED <<i, atom_serial_pdb, processed_atoms_total,
                               outfile, fmt_args, pdb_line>>
           ELSE /\ atom_serial_pdb' = atom_serial_pdb + 1
                /\ processed_atoms_total' =
                       TotalAfter(processed_atoms_total, TRUE)
                /\ stderr' = IF atom_serial_pdb + 1 > PdbSerialLimit
                             THEN Append(stderr, "serial_over_limit")
                             ELSE stderr
                /\ fmt_args' = AtomArgs(atom_serial_pdb + 1, r.toks)
                /\ pdb_line' = FormatArgs(fmt_args')
                /\ outfile' = Append(outfile, pdb_line')
                /\ i' = TurnAfter(i, TRUE)
                /\ pc' = LoopNext(i')
                /\ UNCHANGED <<in_open, out_open, exit_status>>
    /\ UNCHANGED <<env, out_created, stdout, model_count, num_atoms>>

\* Mutant of WriteEndmdl: the ENDMDL record is not written.
WriteEndmdl_Omitted ==
    /\ pc = "endmdl"
    /\ pc' = "header"
    /\ UNCHANGED <<env, infile, at_eof, in_open, out_open, out_created, outfile, stdout,
                   stderr, exit_status, line_num, counters, fmt_args, pdb_line>>

\* The ENDMDL record after the for loop, however the loop ended.
WriteEndmdl ==
    /\ pc = "endmdl"
    /\ outfile' = Append(outfile, EndmdlLine)
    /\ pc' = "header"
    /\ UNCHANGED <<env, infile, at_eof, in_open, out_open, out_created, stdout, stderr,
                   exit_status, line_num, counters, fmt_args, pdb_line>>

\* Mutant of AnyFrame: END depends on atoms written, not on frames opened.
AnyFrame_ByAtoms == processed_atoms_total > 0

\* if model_count > 0
AnyFrame == model_count > 0

\* After the while loop: the END record or the warning; the with statement
\* closes both files; the summary is printed and the call returns, so the
\* exit status stays 0.
Finish ==
    /\ pc = "finish"
    /\ IF AnyFrame
       THEN /\ outfile' = Append(outfile, EndLine)
            /\ UNCHANGED stderr
       ELSE /\ stderr' = Append(stderr, "no_valid_frames")
            /\ UNCHANGED outfile
    /\ in_open' = WithExit(in_open, TRUE)
    /\ out_open' = WithExit(out_open, TRUE)
    /\ stdout' = Append(stdout, "conversion_complete")
    /\ pc' = "exited"
    /\ UNCHANGED <<env, infile, at_eof, out_created, exit_status, line_num,
                   counters, fmt_args, pdb_line>>

\* The places where a file is opened, read or written.
IoPlaces == {"call", "header", "scan", "scan_comment", "skip", "comment",
             "atoms", "endmdl"}

\* An open, a read or a write raises IOError: the with statement closes
\* what was opened and the handler exits with status 1.
IOFault ==
    /\ \/ pc \in IoPlaces /\ (pc = "call" => input_exists)
       \/ pc = "finish" /\ AnyFrame
    /\ stdout' = IF pc = "call" THEN Append(stdout, "starting") ELSE stdout
    /\ stderr' = Append(stderr, "io_error")
    /\ exit_status' = 1
    /\ in_open' = WithExit(in_open, FALSE)
    /\ out_open' = WithExit(out_open, FALSE)
    /\ pc' = "exited"
    /\ UNCHANGED <<env, infile, at_eof, out_created, outfile, line_num,
                   counters, fmt_args, pdb_line>>

Next ==
    \/ Main
    \/ OpenFiles
    \/ ReadHeader
    \/ ScanForCount
    \/ ScanConsumeComment
    \/ SkipFrame
    \/ ReadComment
    \/ ReadAtom
    \/ WriteEndmdl
    \/ Finish

\* Runs without I/O errors.
Spec == Init /\ [][Next]_vars

\* The runs over the input files of class "extras".
InitLive == Init /\ input_class = "extras"

\* Those runs, of a program that takes its next step as long as it has
\* one: it is sequential and nothing can hold it up.
SpecLive == InitLive /\ [][Next]_vars /\ WF_vars(Next)

\* outfile.write raises IOError for the MODEL record or for an ATOM record:
\* the line has been read and the counters advanced, nothing is written,
\* the with statement closes the files and the handler exits with status 1.
WriteFault ==
    /\ pc \in {"comment", "atoms"}
    /\ \E r \in Reads :
        /\ ~r.eof
        /\ readline(r)
        /\ IF pc = "comment"
           THEN /\ model_count' = model_count + 1
                /\ UNCHANGED <<processed_atoms_total, atom_serial_pdb,
                               fmt_args, pdb_line>>
           ELSE /\ AtomParses(r.toks)
                /\ atom_serial_pdb' = atom_serial_pdb + 1
                /\ processed_atoms_total' =
                       TotalAfter(processed_atoms_total, TRUE)
                /\ fmt_args' = AtomArgs(atom_serial_pdb + 1, r.toks)
                /\ pdb_line' = FormatArgs(fmt_args')
                /\ UNCHANGED model_count
    /\ stderr' = Append(stderr, "io_error")
    /\ exit_status' = 1
    /\ in_open' = WithExit(in_open, FALSE)
    /\ out_open' = WithExit(out_open, FALSE)
    /\ pc' = "exited"
    /\ UNCHANGED <<env, out_created, outfile, stdout, num_atoms, i>>

NextIO == Next \/ IOFault \/ WriteFault

\* Runs in which an open, a read or a write may fail.
SpecIO == Init /\ [][NextIO]_vars

-----------------------------------------------------------------------------
(* format_pdb_line on its own *)

FmtSerials == {1, 42, 99999}

FmtNames == {<<"C">>, <<"F", "E">>}

FmtCoords == {[neg |-> FALSE, mag |-> 0], [neg |-> FALSE, mag |-> 15000],
              [neg |-> TRUE, mag |-> 22516], [neg |-> TRUE, mag |-> 9999999],
              [neg |-> FALSE, mag |-> 99999994]}

InitFmt ==
    /\ pc = "format"
    /\ argc = 3
    /\ input_exists = TRUE
    /\ input_class = "mixed"
    /\ infile = <<>>
    /\ at_eof = FALSE
    /\ in_open = FALSE
    /\ out_open = FALSE
    /\ out_created = FALSE
    /\ outfile = <<>>
    /\ stdout = <<>>
    /\ stderr = <<>>
    /\ exit_status = 0
    /\ model_count = 0
    /\ line_num = 0
    /\ processed_atoms_total = 0
    /\ num_atoms = 0
    /\ atom_serial_pdb = 0
    /\ i = 0
    /\ pdb_line = <<>>
    /\ \E n \in FmtSerials, e \in FmtNames, cx \in FmtCoords,
          cy \in FmtCoords, cz \in FmtCoords :
          fmt_args = [atom_serial |-> n, atom_name |-> e,
                      res_name |-> DefaultResName,
                      chain_id |-> DefaultChainId,
                      res_seq |-> DefaultResSeq,
                      x |-> cx, y |-> cy, z |-> cz,
                      occupancy |-> DefaultOccupancy,
                      temp_factor |-> DefaultTempFactor,
                      element_sym |-> e]

FormatCall ==
    /\ pc = "format"
    /\ pdb_line' = FormatArgs(fmt_args)
    /\ pc' = "formatted"
    /\ UNCHANGED <<env, infile, at_eof, in_open, out_open, out_created, outfile, stdout,
                   stderr, exit_status, line_num, counters, fmt_args>>

NextFmt == FormatCall

SpecFmt == InitFmt /\ [][NextFmt]_vars

-----------------------------------------------------------------------------
(* Reading the output file back, and the shape of input files *)

StartsWith(l, w) == Len(l) >= Len(w) /\ SubSeq(l, 1, Len(w)) = w

\* The record type of an output line, from its text.
Kind(l) ==
    IF StartsWith(l, <<"M", "O", "D", "E", "L">>) THEN "MODEL"
    ELSE IF StartsWith(l, <<"A", "T", "O", "M">>) THEN "ATOM"
    ELSE IF l = <<"E", "N", "D", "M", "D", "L", "\n">> THEN "ENDMDL"
    ELSE IF l = <<"E", "N", "D", "\n">> THEN "END"
    ELSE "other"

Kinds(out) == [k \in 1..Len(out) |-> Kind(out[k])]

CountKind(out, kd) == Cardinality({k \in 1..Len(out) : Kind(out[k]) = kd})

RECURSIVE LStrip(_)
LStrip(s) == IF Len(s) > 0 /\ s[1] = " " THEN LStrip(Tail(s)) ELSE s

\* The integer written, right-justified, in columns a..b of the line l.
NumberAt(l, a, b) == DigitsVal(LStrip(SubSeq(l, a, b)))

\* The atom serial of an ATOM line (columns 7-11) and the model number of a
\* MODEL line (columns 11-14).
SerialOf(l) == NumberAt(l, 7, 11)

ModelNumberOf(l) == NumberAt(l, 11, 14)

\* The MODEL numbers of the output, in output order.
ModelNumbers(out) ==
    LET idx == {k \in 1..Len(out) : Kind(out[k]) = "MODEL"}
        nth(j) == CHOOSE k \in idx : Cardinality({m \in idx : m <= k}) = j
    IN [j \in 1..Cardinality(idx) |-> ModelNumberOf(out[nth(j)])]

\* A well-formed atom line: an element token and three numeric tokens.
GoodAtomLine(l) ==
    Len(l) = 4 /\ IsFloatLit(l[2]) /\ IsFloatLit(l[3]) /\ IsFloatLit(l[4])

Min(a, b) == IF a < b THEN a ELSE b

\* The input file `ls` read as a sequence of frames.  Each item is a frame
\* with all its n atom lines ("frame"), a declaration with a count of zero
\* or less and its comment line ("skipped"), or a last frame that the end of
\* the file cuts short after n well-formed atom lines ("truncated").
\* Anything else makes the item "bad" and ends the reading.
RECURSIVE Items(_)
Items(ls) ==
    IF ls = <<>> THEN <<>>
    ELSE IF ~ParsesAsCount(ls[1]) \/ Len(ls) < 2 THEN <<[k |-> "bad", n |-> 0]>>
    ELSE LET n     == CountOf(ls[1])
             avail == Min(n, Len(ls) - 2)
         IN IF n <= 0
            THEN <<[k |-> "skipped", n |-> 0]>> \o Items(SubSeq(ls, 3, Len(ls)))
            ELSE IF \E j \in 3..(2 + avail) : ~GoodAtomLine(ls[j])
            THEN <<[k |-> "bad", n |-> 0]>>
            ELSE IF avail < n
            THEN <<[k |-> "truncated", n |-> avail]>>
            ELSE <<[k |-> "frame", n |-> n]>>
                 \o Items(SubSeq(ls, 3 + n, Len(ls)))

ItemKinds(ls) == {Items(ls)[j].k : j \in 1..Len(Items(ls))}

\* The record types the output file must hold for the items `its`.
RECURSIVE BlockKinds(_)
BlockKinds(its) ==
    IF its = <<>> THEN <<>>
    ELSE (IF its[1].k \in {"frame", "truncated"}
          THEN <<"MODEL">> \o [j \in 1..its[1].n |-> "ATOM"] \o <<"ENDMDL">>
          ELSE <<>>)
         \o BlockKinds(Tail(its))

ExpectedKinds(its) ==
    IF BlockKinds(its) = <<>> THEN <<>> ELSE BlockKinds(its) \o <<"END">>

\* The converter has reached the end of the input and left the loop
\* normally: END or the warning has been written.
Completed == pc = "exited" /\ at_eof /\ exit_status = 0

Has(log, msg) == \E k \in 1..Len(log) : log[k] = msg

-----------------------------------------------------------------------------
(* Claims *)

UpTo(n) == [j \in 1..n |-> j]

C1_WellFormedInput == ItemKinds(infile) = {"frame"}

\* C1: for a well-formed input of N >= 1 frames, the finished output holds
\* exactly N MODEL blocks in input order, numbered 1..N, each one MODEL
\* line, the declared count of ATOM lines and one ENDMDL line, and a single
\* END as its last line.
C1_FramesConverted ==
    (Completed /\ C1_WellFormedInput) =>
        /\ Kinds(outfile) = ExpectedKinds(Items(infile))
        /\ ModelNumbers(outfile) = UpTo(Len(Items(infile)))

\* Two frames with different atom counts have been converted.
C1_Witness ==
    /\ Completed
    /\ C1_WellFormedInput
    /\ Len(Items(infile)) = 2
    /\ Items(infile)[1].n < Items(infile)[2].n

\* C2: a well-formed input preceded by one line that does not parse as a
\* count is converted in full: after the recovery scan finds the count, only
\* the line right after it is taken as the comment, and every declared atom
\* of the frame is written.
C2_RecoveredFrameConverted ==
    (/\ Completed
     /\ Len(infile) >= 1
     /\ ~ParsesAsCount(infile[1])
     /\ ItemKinds(Tail(infile)) = {"frame"}) =>
        Kinds(outfile) = ExpectedKinds(Items(Tail(infile)))

\* This step reads, as an atom line, a line of fewer than 4 tokens.
ShortLineRead ==
    /\ pc = "atoms"
    /\ Len(infile') = Len(infile) + 1
    /\ Len(infile'[Len(infile')]) < 4

\* C3 as stated: an atom line of fewer than 4 tokens writes no ATOM record
\* and leaves unchanged the number of atom lines still to be read for the
\* frame.
C3_BudgetKept ==
    [][ShortLineRead =>
         /\ outfile' = outfile
         /\ num_atoms' - i' = num_atoms - i]_vars

\* C3 as amended: an atom line of fewer than 4 tokens writes no ATOM record,
\* does not advance the atom serial and does not change the declared count,
\* but uses up one of the frame's reads: one atom line fewer is still to be
\* read for the frame after the skip than before the line was read.
C3_SkipUsesOneTurn ==
    [][ShortLineRead =>
         /\ outfile' = outfile
         /\ atom_serial_pdb' = atom_serial_pdb
         /\ processed_atoms_total' = processed_atoms_total
         /\ num_atoms' = num_atoms
         /\ num_atoms' - i' = num_atoms - i - 1]_vars

\* A short atom line has just been skipped and the frame has turns left.
C3_Witness ==
    /\ pc = "atoms"
    /\ i >= 1
    /\ Len(infile[Len(infile)]) < 4
    /\ stderr[Len(stderr)] = "malformed_atom_line"

\* The number of ATOM lines of the block of line j, up to line j.
AtomsInBlockUpTo(out, j) ==
    Cardinality({m \in 1..j : /\ Kind(out[m]) = "ATOM"
                              /\ \A q \in m..j : Kind(out[q]) # "MODEL"})

\* C4: in every MODEL block of the output, for any input, the serial
\* numbers of the ATOM lines are 1, 2, ..., k in order.
C4_SerialsPerModel ==
    \A j \in 1..Len(outfile) :
        Kind(outfile[j]) = "ATOM" =>
            SerialOf(outfile[j]) = AtomsInBlockUpTo(outfile, j)

\* A second model holds an ATOM line, after a first model that holds one,
\* and a malformed atom line was skipped on the way.
C4_Witness ==
    /\ Has(stderr, "malformed_atom_line")
    /\ \E j, k \in 1..Len(outfile) :
        /\ j < k
        /\ Kind(outfile[j]) = "ATOM"
        /\ Kind(outfile[k]) = "ATOM"
        /\ \E q \in j..k : Kind(outfile[q]) = "MODEL"

\* C5: without I/O errors and for any input, the output is a run of blocks
\* MODEL, ATOM*, ENDMDL, the last one possibly still open, then END at most
\* once and last; MODEL numbers are 1, 2, 3, ...; the ENDMDL lines are as
\* many as the MODEL lines or one fewer, and as many once the run is over.
C5_BlockStructure ==
    LET K == Kinds(outfile) IN
    /\ \A k \in 1..Len(K) :
        /\ K[k] # "other"
        /\ k = 1 => K[k] = "MODEL"
        /\ (k > 1 /\ K[k] = "MODEL") => K[k - 1] = "ENDMDL"
        /\ (k > 1 /\ K[k] = "ATOM") => K[k - 1] \in {"MODEL", "ATOM"}
        /\ (k > 1 /\ K[k] = "ENDMDL") => K[k - 1] \in {"MODEL", "ATOM"}
        /\ (k > 1 /\ K[k] = "END") => K[k - 1] = "ENDMDL"
        /\ K[k] = "END" => k = Len(K)
    /\ ModelNumbers(outfile) = UpTo(CountKind(outfile, "MODEL"))
    /\ CountKind(outfile, "MODEL") - CountKind(outfile, "ENDMDL") \in {0, 1}
    /\ Completed => CountKind(outfile, "ENDMDL") = CountKind(outfile, "MODEL")

\* Two blocks have been written and closed, with a recovery scan between
\* them.
C5_Witness ==
    /\ Completed
    /\ CountKind(outfile, "MODEL") = 2
    /\ Has(stderr, "invalid_count")

CountMsg(log, msg) == Cardinality({k \in 1..Len(log) : log[k] = msg})

CountItems(its, kd) == Cardinality({j \in 1..Len(its) : its[j].k = kd})

C6_SkippedFramesInput ==
    /\ "skipped" \in ItemKinds(infile)
    /\ ItemKinds(infile) \subseteq {"skipped", "frame"}

\* C6: a count of zero or less read as a frame header gives one diagnostic,
\* takes one further line (the comment) and no atom line, writes nothing and
\* leaves the model counter alone; frames that follow are converted in full
\* under consecutive model numbers.
C6_NonPositiveFrameSkipped ==
    (Completed /\ C6_SkippedFramesInput) =>
        /\ Kinds(outfile) = ExpectedKinds(Items(infile))
        /\ ModelNumbers(outfile) = UpTo(CountItems(Items(infile), "frame"))
        /\ model_count = CountItems(Items(infile), "frame")
        /\ CountMsg(stderr, "non_positive_count")
               = CountItems(Items(infile), "skipped")
        /\ line_num = Len(infile) + 1

\* A frame declared with a negative count was skipped and the frame after
\* it converted.
C6_Witness ==
    /\ Completed
    /\ C6_SkippedFramesInput
    /\ CountOf(infile[1]) < 0
    /\ Len(Items(infile)) >= 2
    /\ Items(infile)[2].k = "frame"

C7_TruncatedInput ==
    LET its == Items(infile) IN
    /\ Len(its) >= 1
    /\ its[Len(its)].k = "truncated"
    /\ \A j \in 1..(Len(its) - 1) : its[j].k = "frame"

\* C7: when the input ends inside a frame, a diagnostic is given, the ATOM
\* lines already written are kept, ENDMDL still closes the block and END
\* follows: the finished output never ends in an open block.
C7_PartialFrameClosed ==
    /\ (Completed /\ C7_TruncatedInput) =>
          /\ Kinds(outfile) = ExpectedKinds(Items(infile))
          /\ CountMsg(stderr, "eof_in_atoms") = 1
    /\ (Completed /\ Has(stderr, "eof_in_atoms")) =>
          /\ Len(outfile) >= 3
          /\ Kind(outfile[Len(outfile) - 1]) = "ENDMDL"
          /\ Kind(outfile[Len(outfile)]) = "END"
          /\ CountKind(outfile, "ATOM") = processed_atoms_total

\* A frame declaring two atoms got one before the input ended, after a
\* complete frame.
C7_Witness ==
    /\ Completed
    /\ C7_TruncatedInput
    /\ Len(Items(infile)) = 2
    /\ Items(infile)[2].n = 1

\* C8: once the end of the input is reached, from whichever state, END is
\* written exactly once and last if and only if a MODEL line was written;
\* otherwise the output is empty and the 'no valid frames' diagnostic is
\* given.  No END is written before that.
C8_EndIffFrameOpened ==
    /\ Completed =>
          IF CountKind(outfile, "MODEL") > 0
          THEN /\ CountKind(outfile, "END") = 1
               /\ Kind(outfile[Len(outfile)]) = "END"
               /\ ~Has(stderr, "no_valid_frames")
          ELSE /\ outfile = <<>>
               /\ CountMsg(stderr, "no_valid_frames") = 1
    /\ pc # "exited" =>
          /\ CountKind(outfile, "END") = 0
          /\ ~Has(stderr, "no_valid_frames")

\* The input ended right after a count line, after a frame with no valid
\* atom had been written.
C8_Witness ==
    /\ Completed
    /\ Has(stderr, "eof_after_count")
    /\ CountKind(outfile, "MODEL") = 1
    /\ CountKind(outfile, "ATOM") = 0

\* C9: a run over a readable input ends normally whatever anomalies the
\* input holds: the summary is printed and the exit status is 0.  The exit
\* status is 1 only after a usage error, a missing input file or an I/O
\* error.  Until the program has exited it can go on without an I/O error.
C9_AnomaliesNotFatal ==
    /\ exit_status \in {0, 1}
    /\ exit_status = 1 =>
          /\ pc = "exited"
          /\ argc # 3 \/ ~input_exists \/ Has(stderr, "io_error")
    /\ (pc = "exited" /\ exit_status = 0) =>
          /\ at_eof
          /\ stdout[Len(stdout)] = "conversion_complete"
    /\ pc # "exited" => ENABLED Next

\* A run that met an unparseable count, a non-numeric coordinate and a
\* premature end of file has exited with status 0.
C9_Witness ==
    /\ pc = "exited"
    /\ exit_status = 0
    /\ Has(stderr, "invalid_count")
    /\ Has(stderr, "atom_parse_error")
    /\ Has(stderr, "eof_in_atoms")

\* The text in columns a..b (counted from 1) of the line l.
Columns(l, a, b) == SubSeq(l, a, b)

RECURSIVE RStrip(_)
RStrip(s) ==
    IF Len(s) > 0 /\ s[Len(s)] = " "
    THEN RStrip(SubSeq(s, 1, Len(s) - 1))
    ELSE s

\* The call is one C10 speaks of: the serial is at most 99999, the element
\* has 1 or 2 characters and each coordinate fits 8 characters.
C10_InRange(a) ==
    /\ a.atom_serial <= 99999
    /\ Len(a.atom_name) \in {1, 2}
    /\ Len(FmtFixed(a.x, 3, 8)) = 8
    /\ Len(FmtFixed(a.y, 3, 8)) = 8
    /\ Len(FmtFixed(a.z, 3, 8)) = 8

\* C10: the line format_pdb_line returns for such a call holds 'ATOM  ' in
\* columns 1-6, the serial in 7-11, the atom name within 13-16, the residue
\* name in 18-20, the chain identifier in 22, the residue sequence number in
\* 23-26, x, y, z in 31-38, 39-46, 47-54, the occupancy in 55-60, the
\* temperature factor in 61-66 and the element symbol in 77-78.
C10_FieldColumns ==
    (pc = "formatted" /\ C10_InRange(fmt_args)) =>
        LET l == pdb_line
            a == fmt_args
        IN  /\ Len(l) >= 78
            /\ Columns(l, 1, 6) = <<"A", "T", "O", "M", " ", " ">>
            /\ Columns(l, 7, 11) = FmtInt(a.atom_serial, 5)
            /\ RStrip(LStrip(Columns(l, 13, 16))) = a.atom_name
            /\ Columns(l, 18, 20) = a.res_name
            /\ Columns(l, 22, 22) = a.chain_id
            /\ Columns(l, 23, 26) = FmtInt(a.res_seq, 4)
            /\ Columns(l, 31, 38) = FmtFixed(a.x, 3, 8)
            /\ Columns(l, 39, 46) = FmtFixed(a.y, 3, 8)
            /\ Columns(l, 47, 54) = FmtFixed(a.z, 3, 8)
            /\ Columns(l, 55, 60) = FmtFixed(a.occupancy, 2, 6)
            /\ Columns(l, 61, 66) = FmtFixed(a.temp_factor, 2, 6)
            /\ Columns(l, 77, 78) = RJust(a.element_sym, 2)

\* This step reads the line `AtomLineOf' as an atom line of a frame.
AtomLineRead == pc = "atoms" /\ Len(infile') = Len(infile) + 1

AtomLineOf == infile'[Len(infile')]

\* This step writes nothing and gives one more diagnostic.
SkippedWithDiagnostic ==
    /\ outfile' = outfile
    /\ Len(stderr') = Len(stderr) + 1
    /\ stderr'[Len(stderr')] \in {"malformed_atom_line", "atom_parse_error"}

\* This step appends exactly one line, an ATOM record, to the output.
OneAtomWritten ==
    /\ Len(outfile') = Len(outfile) + 1
    /\ SubSeq(outfile', 1, Len(outfile)) = outfile
    /\ Kind(outfile'[Len(outfile')]) = "ATOM"

\* The last three tokens of the line are floating-point numbers.
LastThreeAreFloats(l) ==
    /\ Len(l) >= 3
    /\ \A k \in (Len(l) - 2)..Len(l) : IsFloatLit(l[k])

\* The second, third and fourth token of the line are floating-point
\* numbers.
CoordinateTokensAreFloats(l) ==
    /\ Len(l) >= 4
    /\ \A k \in 2..4 : IsFloatLit(l[k])

\* C11 as stated: an atom line is skipped with a diagnostic if and only if it
\* has fewer than 4 tokens or its last three tokens are not all floats;
\* every other atom line, extra tokens or not, gives exactly one ATOM record.
C11_SkippedIffLastThreeBad ==
    [][AtomLineRead =>
         IF Len(AtomLineOf) < 4 \/ ~LastThreeAreFloats(AtomLineOf)
         THEN SkippedWithDiagnostic
         ELSE OneAtomWritten]_vars

\* C11 as amended: an atom line is skipped with a diagnostic if and only if
\* it has fewer than 4 tokens or its second, third and fourth token are not
\* all floats; every other atom line gives exactly one ATOM record, whatever
\* follows its fourth token.
C11_SkippedIffCoordinatesBad ==
    [][AtomLineRead =>
         IF Len(AtomLineOf) < 4 \/ ~CoordinateTokensAreFloats(AtomLineOf)
         THEN SkippedWithDiagnostic
         ELSE OneAtomWritten]_vars

\* A line with a non-numeric fifth token has just been written as an ATOM
\* record, after a line with a non-numeric second token was skipped.
C11_Witness ==
    /\ Len(infile) >= 1
    /\ infile[Len(infile)] = LineExtra
    /\ Len(outfile) >= 1
    /\ outfile[Len(outfile)] = pdb_line
    /\ Kind(pdb_line) = "ATOM"
    /\ \E j \in 1..Len(infile) : infile[j] = LineShifted
    /\ Has(stderr, "atom_parse_error")

\* The progress and summary messages.
ProgressMessages == {"starting", "processing_frame", "conversion_complete"}

\* The warnings and the error messages, the usage message among them.
Diagnostics ==
    {"usage", "input_does_not_exist", "input_not_found", "io_error",
     "unexpected_error", "invalid_count", "non_positive_count",
     "eof_after_count", "eof_in_atoms", "malformed_atom_line",
     "atom_parse_error", "serial_over_limit", "no_valid_frames"}

\* C12: every warning and error message, the usage message and the message
\* for a missing input file included, goes to standard error and only
\* progress and summary messages go to standard output; a run with a wrong
\* argument count exits with status 1, its usage message on standard error,
\* before any file is opened or created.
C12_DiagnosticsOnStderr ==
    /\ \A k \in 1..Len(stdout) : stdout[k] \in ProgressMessages
    /\ \A k \in 1..Len(stderr) : stderr[k] \in Diagnostics
    /\ (pc = "exited" /\ argc # 3) =>
          /\ exit_status = 1
          /\ stderr = <<"usage">>
          /\ ~in_open /\ ~out_open /\ ~out_created
          /\ infile = <<>>
    /\ (pc = "exited" /\ argc = 3 /\ ~input_exists) =>
          /\ exit_status = 1
          /\ stderr \in {<<"input_does_not_exist">>, <<"input_not_found">>}

\* C13: when the input path names no file, the run ends with exit status 1
\* and one diagnostic on standard error, whether it was started from the
\* command line or by a direct call of xyz_to_pdb, and the output file is
\* at no time opened, created or truncated; nothing is read either.
C13_MissingInputLeavesOutput ==
    (argc = 3 /\ ~input_exists) =>
        /\ ~out_open /\ ~out_created /\ outfile = <<>>
        /\ ~in_open /\ infile = <<>>
        /\ pc \in {"main", "call", "exited"}
        /\ pc # "exited" => (ENABLED Next /\ exit_status = 0 /\ stderr = <<>>)
        /\ pc = "exited" =>
              /\ exit_status = 1
              /\ \/ stderr = <<"input_does_not_exist">> /\ stdout = <<>>
                 \/ stderr = <<"input_not_found">> /\ stdout = <<"starting">>

\* A direct call of xyz_to_pdb with a missing input file has exited.
C13_Witness ==
    /\ pc = "exited"
    /\ argc = 3
    /\ ~input_exists
    /\ stderr = <<"input_not_found">>
    /\ exit_status = 1

\* C14: in every terminal state of a conversion call, after a normal
\* completion, a failed open of the input or of the output, or an I/O error
\* at any read or write, both file handles are closed; a handle is open
\* only while the call is between its opens and its end, and never once
\* the exit status 1 has been produced.
C14_HandlesReleased ==
    /\ pc = "exited" => (~in_open /\ ~out_open)
    /\ exit_status = 1 => (~in_open /\ ~out_open)
    /\ (in_open \/ out_open) =>
          /\ in_open /\ out_open /\ out_created
          /\ pc \in (IoPlaces \ {"call"}) \cup {"finish"}

\* A conversion has been aborted by an I/O error after it had written to
\* the output file.
C14_Witness ==
    /\ pc = "exited"
    /\ exit_status = 1
    /\ Has(stderr, "io_error")
    /\ CountKind(outfile, "ATOM") >= 1
    /\ ~in_open /\ ~out_open

\* The states in which the converter reads the input.
ReadingPlaces == {"header", "scan", "scan_comment", "skip", "comment", "atoms"}

\* An upper bound on the steps the converter still takes from a place once
\* the end of the input has been observed.
StepsLeftAtEof(place) ==
    CASE place = "exited" -> 0
      [] place = "finish" -> 1
      [] place \in {"header", "comment", "scan"} -> 2
      [] place \in {"endmdl", "skip"} -> 3
      [] place \in {"atoms", "scan_comment"} -> 4
      [] OTHER -> 5

\* A step of the converter makes progress: from a reading place it takes
\* exactly one more line of the input or observes its end, and from the
\* moment the end is observed every step brings the converter nearer to its
\* exit.
ConverterProgress ==
    /\ pc \in ReadingPlaces =>
          /\ line_num' = line_num + 1
          /\ \/ ~at_eof /\ ~at_eof' /\ Len(infile') = Len(infile) + 1
             \/ at_eof' /\ infile' = infile
    /\ pc \notin ReadingPlaces => (infile' = infile /\ at_eof' = at_eof)
    /\ at_eof' => StepsLeftAtEof(pc') < StepsLeftAtEof(pc)
    /\ pc = "endmdl" => pc' \in ReadingPlaces

\* Nothing is read at EndOfInput and nothing happens after it.
NothingAfterEndOfInput ==
    /\ pc # "exited"
    /\ pc = "finish" =>
          /\ pc' = "exited"
          /\ infile' = infile /\ line_num' = line_num
          /\ outfile' \in {outfile, Append(outfile, EndLine)}

\* C15: on every input file (all are finite) the converter reaches
\* EndOfInput and the program exits: each step taken in header reading, the
\* recovery scan, the skip of a non-positive frame and the atom loop takes
\* one more input line or observes the end of the input, after which the
\* exit is at most four steps away, so no cycle repeats without progress;
\* EndOfInput reads nothing, and after it nothing is read or written.
C15_Terminates ==
    /\ [][ConverterProgress /\ NothingAfterEndOfInput]_vars
    /\ (pc = "header") ~> (pc = "finish" /\ at_eof)
    /\ <>[](pc = "exited" /\ ~ENABLED Next)

\* The program has exited after the input ended in the atom loop of a frame
\* that followed a skipped frame.
C15_Witness ==
    /\ pc = "exited"
    /\ at_eof
    /\ Has(stderr, "eof_in_atoms")
    /\ Has(stderr, "non_positive_count")
    /\ CountKind(outfile, "ATOM") >= 1

\* The number of lines of `ls' that the converter writes as ATOM records.
CountValid(ls) ==
    Cardinality({j \in 1..Len(ls) : CoordinateTokensAreFloats(ls[j])})

\* The input file `ls' read frame by frame: a count line, a comment line
\* and, for a positive count n, the n lines after the comment, valid or
\* not, the next count line being the line after them.  An item is such a
\* frame ("frame", with the number of its valid lines), a declaration with
\* a count of zero or less and its comment ("skipped"), or a last frame
\* or declaration that the end of the file cuts short ("truncated").  A
\* line that does not parse as a count where a count is expected makes the
\* item "bad" and ends the reading.
RECURSIVE Frames(_)
Frames(ls) ==
    IF ls = <<>> THEN <<>>
    ELSE IF ~ParsesAsCount(ls[1]) THEN <<[k |-> "bad", n |-> 0, valid |-> 0]>>
    ELSE LET n == CountOf(ls[1]) IN
         IF n <= 0
         THEN IF Len(ls) < 2
              THEN <<[k |-> "truncated", n |-> 0, valid |-> 0]>>
              ELSE <<[k |-> "skipped", n |-> 0, valid |-> 0]>>
                   \o Frames(SubSeq(ls, 3, Len(ls)))
         ELSE IF Len(ls) - 2 < n
         THEN <<[k |-> "truncated", n |-> n, valid |-> 0]>>
         ELSE <<[k |-> "frame", n |-> n,
                 valid |-> CountValid(SubSeq(ls, 3, 2 + n))]>>
              \o Frames(SubSeq(ls, 3 + n, Len(ls)))

FrameKinds(ls) == {Frames(ls)[j].k : j \in 1..Len(Frames(ls))}

\* The record types of the blocks of the frames `fs'.
RECURSIVE FrameBlockKinds(_)
FrameBlockKinds(fs) ==
    IF fs = <<>> THEN <<>>
    ELSE (IF fs[1].k = "frame"
          THEN <<"MODEL">> \o [j \in 1..fs[1].valid |-> "ATOM"] \o <<"ENDMDL">>
          ELSE <<>>)
         \o FrameBlockKinds(Tail(fs))

\* The last `n' lines read from the input.
LastRead(n) == SubSeq(infile, Len(infile) - n + 1, Len(infile))

C16_WholeFramesInput ==
    /\ "frame" \in FrameKinds(infile)
    /\ FrameKinds(infile) \subseteq {"frame", "skipped"}

\* C16: for a frame declared with a positive count n that the input does
\* not end in, the converter reads the n lines after the comment line as
\* atom lines, valid or not, and no more: the block holds as many ATOM lines
\* as there are valid lines among those n, so at most n, and the line after
\* them is read as the next count line.
C16_DeclaredLinesRead ==
    /\ (Completed /\ C16_WholeFramesInput) =>
          /\ Kinds(outfile) = FrameBlockKinds(Frames(infile)) \o <<"END">>
          /\ line_num = Len(infile) + 1
    /\ (pc = "atoms" /\ ~at_eof) =>
          /\ i < num_atoms
          /\ Len(infile) >= i + 2
          /\ atom_serial_pdb = CountValid(LastRead(i))
    /\ (pc = "endmdl" /\ ~at_eof) =>
          /\ i = num_atoms
          /\ Len(infile) >= num_atoms + 2
          /\ atom_serial_pdb = CountValid(LastRead(num_atoms))
          /\ AtomsInBlockUpTo(outfile, Len(outfile)) = atom_serial_pdb
          /\ atom_serial_pdb <= num_atoms

\* A frame of two lines, the first of them not valid, and the frame after
\* it have been converted.
C16_Witness ==
    /\ Completed
    /\ Len(Frames(infile)) = 2
    /\ Frames(infile)[1] = [k |-> "frame", n |-> 2, valid |-> 1]
    /\ ~CoordinateTokensAreFloats(infile[3])
    /\ Frames(infile)[2] = [k |-> "frame", n |-> 1, valid |-> 1]
    /\ Kinds(outfile) = <<"MODEL", "ATOM", "ENDMDL",
                          "MODEL", "ATOM", "ENDMDL", "END">>

\* This step writes a MODEL line.
ModelWritten ==
    /\ Len(outfile') = Len(outfile) + 1
    /\ Kind(outfile'[Len(outfile')]) = "MODEL"

\* The line `l' declares the positive count the converter holds.
DeclaresCount(l) == ParsesAsCount(l) /\ CountOf(l) = num_atoms /\ num_atoms > 0

\* C17: a MODEL line is written only in the step that reads a comment line,
\* after a positive count line.  If the input ends where the comment line is
\* expected, nothing is written for that frame, the model counter stays, a
\* diagnostic is given and the converter goes to EndOfInput; the output
\* then ends with END if and only if an earlier frame was opened, every
\* MODEL line having its ENDMDL line.
C17_ModelNeedsComment ==
    [][/\ ModelWritten =>
             /\ pc = "comment"
             /\ Len(infile') = Len(infile) + 1
             /\ Len(infile) >= 1
             /\ \/ DeclaresCount(infile[Len(infile)])
                \/ Len(infile) >= 2 /\ DeclaresCount(infile[Len(infile) - 1])
             /\ model_count' = model_count + 1
       /\ (pc = "comment" /\ at_eof') =>
             /\ outfile' = outfile
             /\ model_count' = model_count
             /\ stderr' = Append(stderr, "eof_after_count")
             /\ pc' = "finish"
       /\ (pc = "finish" /\ Has(stderr, "eof_after_count")) =>
             /\ CountKind(outfile, "MODEL") = model_count
             /\ CountKind(outfile, "ENDMDL") = model_count
             /\ IF model_count > 0
                THEN outfile' = Append(outfile, EndLine)
                ELSE outfile' = <<>> /\ outfile = <<>>
      ]_vars

\* The input ended right after the count line of a second frame: the output
\* holds the first frame and END.
C17_Witness ==
    /\ pc = "exited"
    /\ Has(stderr, "eof_after_count")
    /\ ParsesAsCount(infile[Len(infile)])
    /\ CountOf(infile[Len(infile)]) > 0
    /\ Kinds(outfile) = <<"MODEL", "ATOM", "ENDMDL", "END">>
    /\ model_count = 1

\* The counters agree with the output: as many MODEL lines as model_count
\* and as many ATOM lines as processed_atoms_total.
CountersMatchOutput ==
    /\ model_count = CountKind(outfile, "MODEL")
    /\ processed_atoms_total = CountKind(outfile, "ATOM")

=============================================================================
